---- MODULE Spec2Model ----
(***************************************************************************)
(* Ownership and company-finance engine of monopoly-stocks (src/main.py):  *)
(* Player, Purchasable (Property / Railroad), Company.                     *)
(*                                                                         *)
(* A Python dict is modelled as a sequence of <<key, value>> pairs in      *)
(* insertion order, because the code iterates over its dicts and the       *)
(* iteration order decides who loses the remainder shares, who is queried  *)
(* first and which zero entry is deleted before the iterator fails.        *)
(*                                                                         *)
(* Every public operation is one action.  An operation that raises leaves  *)
(* the mutations it made before the raise; no handler exists anywhere in   *)
(* the source, so the exception ends the program and no operation follows. *)
(*                                                                         *)
(* The methods are modelled as written.  Calls are counted (MaxCalls) and  *)
(* their inputs are drawn from ShareChoices and AnswerChoices.             *)
(***************************************************************************)
EXTENDS Integers, Sequences, FiniteSets, TLC

\* ------------------------------------------------------------------ setup
Players == {"A", "B", "C"}
Properties == {"P1", "P2"}
Railroads == {"R1"}
Assets == Properties \cup Railroads
Companies == {"K1", "K2"}

\* Company.assets, the ordered list handed to Company.__init__
assets == [c \in Companies |-> IF c = "K1" THEN <<"P1", "P2">> ELSE <<"R1">>]
\* Purchasable.company
company == [a \in Assets |-> IF a \in Properties THEN "K1" ELSE "K2"]

TotalShares == 100

\* constructor arguments of the session that is explored
CashA == 60
CashB == 40
CashC == 50
ValueP1 == 50
ValueP2 == 150
ValueR1 == 100
FundsK1 == 20
FundsK2 == 5

start_cash == [p \in Players |->
    CASE p = "A" -> CashA [] p = "B" -> CashB [] OTHER -> CashC]
total_stock_value == [a \in Assets |->
    CASE a = "P1" -> ValueP1 [] a = "P2" -> ValueP2 [] OTHER -> ValueR1]
starting_funds == [c \in Companies |-> IF c = "K1" THEN FundsK1 ELSE FundsK2]

\* inputs the operations are called with
ShareChoices == {0, 33, 40, 50, 60}
AnswerChoices == {0, 10, 20}
\* number of public calls made in one run of the session
MaxCalls == 3

None == "None"
True == "True"
False == "False"
NoExc == "ok"

\* ------------------------------------------------------------------ dicts
Has(d, k) == \E i \in 1..Len(d) : d[i][1] = k
Idx(d, k) == CHOOSE i \in 1..Len(d) : d[i][1] = k
Get(d, k) == d[Idx(d, k)][2]
\* d[k] = v: an existing key keeps its place, a new key goes last
Put(d, k, v) == IF Has(d, k) THEN [d EXCEPT ![Idx(d, k)] = <<k, v>>] ELSE Append(d, <<k, v>>)
Del(d, k) == SelectSeq(d, LAMBDA e : e[1] # k)
\* d.get(k, 0)
Count(d, k) == IF Has(d, k) THEN Get(d, k) ELSE 0

RECURSIVE SumVals(_)
SumVals(d) == IF d = <<>> THEN 0 ELSE d[1][2] + SumVals(Tail(d))

\* Python's floor division and modulo for a positive divisor
FloorDiv(x, y) == x \div y
PyMod(x, y) == x % y

\* ------------------------------------------------------------------ state
VARIABLES
    cash,            \* Player.cash
    portfolio,       \* Player.portfolio: dict asset -> shares
    owners,          \* Purchasable.owners: dict player -> shares
    unowned_stock,   \* Purchasable.unowned_stock
    funds,           \* Company.funds
    company_owners,  \* Company.owners: dict player -> shares
    num_houses,      \* Property.num_houses
    majority_owner,  \* Railroad.majority_owner
    call,            \* the public method called last, with its arguments if it got
                     \* past its checks (a call that returns False leaves no trace)
    ret,             \* what it returned, or the exception it raised
    queried,         \* players asked for a contribution during that call
    cleaned,         \* the Company.cleanup that call ran, if any, and its outcome
    cash_before,     \* every player's cash when that call started
    calls,           \* number of public calls made so far
    repeated         \* that call was a foreclose() on the object the call
                     \* before it had foreclosed

state == <<cash, portfolio, owners, unowned_stock, funds, company_owners,
           num_houses, majority_owner>>
vars == <<cash, portfolio, owners, unowned_stock, funds, company_owners,
          num_houses, majority_owner, call, ret, queried, cleaned, cash_before, calls,
          repeated>>

\* the object graph as one record, threaded through the methods; exc is the
\* exception in flight, valid says every answer given was an allowed one
NotCleaned == [company |-> None, outcome |-> None]

Cur == [cash |-> cash, portfolio |-> portfolio, owners |-> owners,
        unowned_stock |-> unowned_stock, funds |-> funds,
        company_owners |-> company_owners, num_houses |-> num_houses,
        majority_owner |-> majority_owner,
        exc |-> NoExc, ret |-> None, queried |-> <<>>, cleaned |-> NotCleaned, valid |-> TRUE]

Raise(s, e) == [s EXCEPT !.exc = e]
Raised(s) == s.exc # NoExc

\* for k in d: if d[k] == 0: del d[k]
\* The first zero entry is deleted; the iterator then finds the size changed.
HasZero(d) == \E i \in 1..Len(d) : d[i][2] = 0
FirstZero(d) == d[CHOOSE i \in 1..Len(d) : d[i][2] = 0 /\ \A j \in 1..(i - 1) : d[j][2] # 0][1]

\* ------------------------------------------------------------------ Player
Player_cleanup(s, p) ==
    IF HasZero(s.portfolio[p])
    THEN Raise([s EXCEPT !.portfolio[p] = Del(@, FirstZero(@))], "RuntimeError")
    ELSE s

\* ------------------------------------------------------------------ Purchasable
\* the price rounded up instead of down
get_stock_price_rounded_up(a, num_shares) ==
    -FloorDiv(-(total_stock_value[a] * num_shares), TotalShares)

get_stock_price(a, num_shares) == FloorDiv(total_stock_value[a] * num_shares, TotalShares)

\* Purchasable.cleanup up to the cascade: prune, then recompute unowned_stock
Purchasable_cleanup_own(s, a) ==
    IF HasZero(s.owners[a])
    THEN Raise([s EXCEPT !.owners[a] = Del(@, FirstZero(@))], "RuntimeError")
    ELSE LET owned == SumVals(s.owners[a])
         IN  IF owned < TotalShares
             THEN [s EXCEPT !.unowned_stock[a] = TotalShares - owned]
             ELSE s

\* ------------------------------------------------------------------ foreclosure
\* for owner in self.owners: del owner.portfolio[self]
RECURSIVE DropPortfolios(_, _, _)
DropPortfolios(s, a, i) ==
    IF i > Len(s.owners[a]) THEN s
    ELSE LET owner == s.owners[a][i][1]
         IN  IF ~Has(s.portfolio[owner], a) THEN Raise(s, "KeyError")
             ELSE DropPortfolios([s EXCEPT !.portfolio[owner] = Del(@, a)], a, i + 1)

\* the pool topped up instead of reset: self.unowned_stock += 100
Property_foreclose_tops_up(s, a) ==
    LET s1 == DropPortfolios([s EXCEPT !.num_houses[a] = 0], a, 1)
    IN  IF Raised(s1) THEN s1
        ELSE [s1 EXCEPT !.owners[a] = <<>>, !.unowned_stock[a] = @ + TotalShares]

Property_foreclose(s, a) ==
    LET s1 == DropPortfolios([s EXCEPT !.num_houses[a] = 0], a, 1)
    IN  IF Raised(s1) THEN s1
        ELSE [s1 EXCEPT !.owners[a] = <<>>, !.unowned_stock[a] = TotalShares]

Railroad_foreclose(s, a) ==
    [s EXCEPT !.majority_owner[a] = None, !.owners[a] = <<>>,
              !.unowned_stock[a] = TotalShares]

Asset_foreclose(s, a) ==
    IF a \in Properties THEN Property_foreclose(s, a) ELSE Railroad_foreclose(s, a)

RECURSIVE ForecloseAssets(_, _, _)
ForecloseAssets(s, c, i) ==
    IF Raised(s) \/ i > Len(assets[c]) THEN s
    ELSE ForecloseAssets(Asset_foreclose(s, assets[c][i]), c, i + 1)

Company_foreclose(s, c) ==
    ForecloseAssets([s EXCEPT !.funds[c] = 0, !.company_owners[c] = <<>>], c, 1)

\* ------------------------------------------------------------------ Company
\* for owner in asset.owners: self.owners[owner] += asset.owners[owner]
\* (added to whatever the entry already holds; the map is not reset first)
RECURSIVE Aggregate(_, _)
Aggregate(co, d) ==
    IF d = <<>> THEN co
    ELSE Aggregate(Put(co, d[1][1], Count(co, d[1][1]) + d[1][2]), Tail(d))

\* asset.cleanup(False): Purchasable.cleanup takes the flag, the override in
\* Railroad takes no argument at all
Asset_cleanup_flag(s, a) ==
    IF a \in Railroads THEN Raise(s, "TypeError") ELSE Purchasable_cleanup_own(s, a)

RECURSIVE CleanAssets(_, _, _)
CleanAssets(s, c, i) ==
    IF i > Len(assets[c]) THEN s
    ELSE LET a == assets[c][i]
             s1 == Asset_cleanup_flag(s, a)
         IN  IF Raised(s1) THEN s1
             ELSE CleanAssets([s1 EXCEPT !.company_owners[c] = Aggregate(@, s1.owners[a])],
                              c, i + 1)

\* any amount up to the share total accepted: range(0, 101)
poss_answers_any(owner_cash) == 0..TotalShares

\* map(str, range(0, owner.cash + 1)): the answers do_request accepts
poss_answers(owner_cash) == 0..owner_cash

\* the bailout loop: each owner of the company is asked once, in dict order
RECURSIVE Collect(_, _, _, _, _)
Collect(s, c, i, ans, added_funds) ==
    IF i > Len(s.company_owners[c]) THEN [s EXCEPT !.funds[c] = @ + added_funds]
    ELSE LET owner == s.company_owners[c][i][1]
             answer == ans[owner]
         IN  Collect([s EXCEPT !.cash[owner] = @ - answer,
                               !.queried = Append(@, owner),
                               !.valid = @ /\ answer \in poss_answers(s.cash[owner])],
                     c, i + 1, ans, added_funds + answer)

\* the test with the boundary on the wrong side: funds <= 0
InDebt_or_level(f) == f <= 0

\* if self.funds < 0
InDebt(f) == f < 0

Company_cleanup(s, c, ans) ==
    LET s1 == CleanAssets(s, c, 1)
    IN  IF Raised(s1) THEN s1
        ELSE IF ~InDebt(s1.funds[c]) THEN [s1 EXCEPT !.cleaned = [company |-> c, outcome |-> "done"]]
        ELSE LET s2 == Collect(s1, c, 1, ans, 0)
             IN  IF ~InDebt(s2.funds[c]) THEN [s2 EXCEPT !.cleaned = [company |-> c, outcome |-> "done"]]
                 ELSE [Company_foreclose(s2, c) EXCEPT
                           !.cleaned = [company |-> c, outcome |-> "foreclosed"]]

\* ------------------------------------------------------------------ cleanup
Purchasable_cleanup(s, a, do_company_cleanup, ans) ==
    LET s1 == Purchasable_cleanup_own(s, a)
    IN  IF Raised(s1) \/ ~do_company_cleanup THEN s1
        ELSE Company_cleanup(s1, company[a], ans)

\* the first owner in dict order holding more than 50, if any
HasMajority(d) == \E i \in 1..Len(d) : d[i][2] > 50
FirstMajority(d) == d[CHOOSE i \in 1..Len(d) : d[i][2] > 50 /\ \A j \in 1..(i - 1) : d[j][2] <= 50][1]

Railroad_cleanup(s, a, ans) ==
    LET s1 == Purchasable_cleanup(s, a, TRUE, ans)
    IN  IF Raised(s1) THEN s1
        ELSE IF HasMajority(s1.owners[a])
             THEN [s1 EXCEPT !.majority_owner[a] = FirstMajority(s1.owners[a])]
             ELSE s1

\* self.cleanup() as the asset's class dispatches it
Asset_cleanup(s, a, ans) ==
    IF a \in Railroads THEN Railroad_cleanup(s, a, ans)
    ELSE Purchasable_cleanup(s, a, TRUE, ans)

\* ------------------------------------------------------------------ trading
\* the division applied to the holding alone: h // 100 * num_shares
Bought_divided_first(h, num_shares) == FloorDiv(h, TotalShares) * num_shares

\* divmod(sellers[seller] * num_shares, 100)
Bought(h, num_shares) == FloorDiv(h * num_shares, TotalShares)

Leftover(h, num_shares) == PyMod(h * num_shares, TotalShares)

\* first loop of the pro-rata sale: every seller gives up Bought of the
\* holding recorded in the snapshot
RECURSIVE Dilute(_, _, _)
Dilute(ow, sellers, num_shares) ==
    IF sellers = <<>> THEN ow
    ELSE Dilute(Put(ow, sellers[1][1], Get(ow, sellers[1][1]) - Bought(sellers[1][2], num_shares)),
                Tail(sellers), num_shares)

RECURSIVE TotalLeftover(_, _)
TotalLeftover(sellers, num_shares) ==
    IF sellers = <<>> THEN 0
    ELSE Leftover(sellers[1][2], num_shares) + TotalLeftover(Tail(sellers), num_shares)

\* second loop: one pass over the sellers, one share each while total_leftover
\* lasts; returned says the loop left through "return" (no cleanup follows)
RECURSIVE TakeLeftover(_, _, _)
TakeLeftover(ow, sellers, total_leftover) ==
    IF sellers = <<>> THEN [owners |-> ow, returned |-> FALSE]
    ELSE IF total_leftover = 0 THEN [owners |-> ow, returned |-> TRUE]
    ELSE IF Get(ow, sellers[1][1]) > 0
         THEN TakeLeftover(Put(ow, sellers[1][1], Get(ow, sellers[1][1]) - 1),
                           Tail(sellers), total_leftover - 1)
         ELSE TakeLeftover(ow, Tail(sellers), total_leftover)

Purchasable_sell_stock(s, a, buyer, num_shares, ans) ==
    LET s1 == [s EXCEPT !.owners[a] = Put(@, buyer, Count(@, buyer) + num_shares)]
        pool == s1.unowned_stock[a]
    IN  IF pool >= num_shares THEN [s1 EXCEPT !.unowned_stock[a] = @ - num_shares]
        ELSE LET rest == IF pool # 0 THEN num_shares - pool ELSE num_shares
                 sellers == Del(s1.owners[a], buyer)
                 diluted == Dilute(s1.owners[a], sellers, rest)
                 taken == TakeLeftover(diluted, sellers, TotalLeftover(sellers, rest))
                 s2 == [s1 EXCEPT !.unowned_stock[a] = 0, !.owners[a] = taken.owners]
             IN  IF taken.returned THEN s2 ELSE Asset_cleanup(s2, a, ans)

Purchasable_buy_stock(s, a, seller, num_shares, ans) ==
    LET sold_shares_cost == FloorDiv(total_stock_value[a] * num_shares, TotalShares)
        s1 == [s EXCEPT !.funds[company[a]] = @ - sold_shares_cost]
    IN  IF ~Has(s1.owners[a], seller) THEN Raise(s1, "KeyError")
        ELSE Asset_cleanup([s1 EXCEPT !.owners[a] = Put(@, seller, Get(@, seller) - num_shares)],
                           a, ans)

\* if 0 >= num_shares >= max_poss_buy: raise ValueError
Rejected(num_shares, max_poss_buy) == 0 >= num_shares /\ num_shares >= max_poss_buy
\* the comparison with its operands exchanged
Insufficient_swapped(cost, c) == c > cost

\* if cost > self.cash: return False
Insufficient(cost, c) == cost > c

Player_buy_stock(s, p, a, num_shares, ans) ==
    LET max_poss_buy == TotalShares - Count(s.portfolio[p], a)
        cost == get_stock_price(a, num_shares)
    IN  IF Rejected(num_shares, max_poss_buy) THEN Raise(s, "ValueError")
        ELSE IF Insufficient(cost, s.cash[p]) THEN [s EXCEPT !.ret = False]
        ELSE LET s1 == Purchasable_sell_stock([s EXCEPT !.cash[p] = @ - cost],
                                              a, p, num_shares, ans)
             IN  IF Raised(s1) THEN s1
                 ELSE [s1 EXCEPT !.portfolio[p] = Put(@, a, Count(@, a) + num_shares),
                                 !.ret = True]

\* the method has no return statement on the path that sells: it returns None
Player_sell_stock(s, p, a, num_shares, ans) ==
    IF ~Has(s.portfolio[p], a) \/ num_shares > Get(s.portfolio[p], a)
    THEN [s EXCEPT !.ret = False]
    ELSE LET s1 == Purchasable_buy_stock(s, a, p, num_shares, ans)
         IN  IF Raised(s1) THEN s1
             ELSE IF ~Has(s1.portfolio[p], a) THEN Raise(s1, "KeyError")
             ELSE LET s2 == Player_cleanup(
                                [s1 EXCEPT !.portfolio[p] = Put(@, a, Get(@, a) - num_shares)], p)
                  IN  IF Raised(s2) THEN s2 ELSE [s2 EXCEPT !.ret = None]

\* ------------------------------------------------------------------ actions
Exceptions == {"ValueError", "RuntimeError", "KeyError", "TypeError"}
ZeroAnswers == [p \in Players |-> 0]
AsSet(q) == {q[i] : i \in 1..Len(q)}

NoArg == "-"
\* target is the space of a buy or sell, the company of a cleanup or foreclose
CallRec(op, p, x, n) == [op |-> op, player |-> p, target |-> x, num_shares |-> n]

Init ==
    /\ cash = start_cash
    /\ portfolio = [p \in Players |-> <<>>]
    /\ owners = [a \in Assets |-> <<>>]
    /\ unowned_stock = [a \in Assets |-> TotalShares]
    /\ funds = starting_funds
    /\ company_owners = [c \in Companies |-> <<>>]
    /\ num_houses = [a \in Properties |-> 0]
    /\ majority_owner = [a \in Railroads |-> None]
    /\ call = CallRec("init", NoArg, NoArg, 0)
    /\ ret = None
    /\ queried = <<>>
    /\ cleaned = NotCleaned
    /\ cash_before = start_cash
    /\ calls = 0
    /\ repeated = FALSE

\* an uncaught exception has ended the program
Running ==
    /\ ret \notin Exceptions
    /\ calls < MaxCalls

Commit(s, op, p, a, n) ==
    /\ s.valid
    /\ call' = IF ~Raised(s) /\ s.ret = False THEN CallRec(op, NoArg, NoArg, 0)
               ELSE CallRec(op, p, a, n)
    /\ cash' = s.cash
    /\ portfolio' = s.portfolio
    /\ owners' = s.owners
    /\ unowned_stock' = s.unowned_stock
    /\ funds' = s.funds
    /\ company_owners' = s.company_owners
    /\ num_houses' = s.num_houses
    /\ majority_owner' = s.majority_owner
    /\ ret' = IF Raised(s) THEN s.exc ELSE s.ret
    /\ queried' = s.queried
    /\ cleaned' = s.cleaned
    /\ cash_before' = cash
    /\ calls' = calls + 1
    /\ repeated' = (op = "foreclose" /\ call.op = "foreclose" /\ call.target = a)

\* every combination of answers the players queried in a run can give; who is
\* queried does not depend on the answers, so a run with any answers tells
Answers(probe) ==
    IF probe.queried = <<>> THEN {ZeroAnswers}
    ELSE [AsSet(probe.queried) -> AnswerChoices]

Buy(p, a, n) ==
    /\ Running
    /\ \E ans \in Answers(Player_buy_stock(Cur, p, a, n, ZeroAnswers)) :
           Commit(Player_buy_stock(Cur, p, a, n, ans), "buy", p, a, n)

Sell(p, a, n) ==
    /\ Running
    /\ \E ans \in Answers(Player_sell_stock(Cur, p, a, n, ZeroAnswers)) :
           Commit(Player_sell_stock(Cur, p, a, n, ans), "sell", p, a, n)

CompanyCleanup(c) ==
    /\ Running
    /\ \E ans \in Answers(Company_cleanup(Cur, c, ZeroAnswers)) :
           Commit(Company_cleanup(Cur, c, ans), "cleanup", NoArg, c, 0)

CompanyForeclose(c) ==
    /\ Running
    /\ Commit(Company_foreclose(Cur, c), "foreclose", NoArg, c, 0)

\* foreclose() called on one asset
AssetForeclose(a) ==
    /\ Running
    /\ Commit(Asset_foreclose(Cur, a), "foreclose", NoArg, a, 0)

Next ==
    \/ \E p \in Players, a \in Assets, n \in ShareChoices : Buy(p, a, n)
    \/ \E p \in Players, a \in Assets, n \in ShareChoices : Sell(p, a, n)
    \/ \E c \in Companies : CompanyCleanup(c)
    \/ \E c \in Companies : CompanyForeclose(c)
    \/ \E a \in Assets : AssetForeclose(a)

Spec == Init /\ [][Next]_vars

\* ------------------------------------------------------------------ claims
Completed == ret \notin Exceptions

\* shares of the company's assets that player p holds, over the list c.assets
RECURSIVE HoldingIn(_, _, _)
HoldingIn(p, c, i) ==
    IF i > Len(assets[c]) THEN 0
    ELSE Count(owners[assets[c][i]], p) + HoldingIn(p, c, i + 1)

\* C1: after any sequence of completed public operations, every asset's
\* owners' holdings plus its unowned_stock add up to exactly 100.
C1_SharesSumTo100 ==
    Completed => \A a \in Assets : SumVals(owners[a]) + unowned_stock[a] = 100

\* C2: after a completed Company.cleanup that does not foreclose, each player's
\* company-level entry equals the player's holdings summed over the company's
\* assets, and a player holding nothing in them has no entry.
C2_CompanyOwnersAggregate ==
    (Completed /\ cleaned.outcome = "done") =>
        \A p \in Players :
            /\ Count(company_owners[cleaned.company], p) = HoldingIn(p, cleaned.company, 1)
            /\ Has(company_owners[cleaned.company], p) => HoldingIn(p, cleaned.company, 1) > 0

\* C3: after any sequence of completed buys and sells, no owners map and no
\* portfolio holds an entry whose share count is zero or negative.
C3_NoNonPositiveEntry ==
    Completed =>
        /\ \A a \in Assets : \A i \in 1..Len(owners[a]) : owners[a][i][2] > 0
        /\ \A p \in Players : \A i \in 1..Len(portfolio[p]) : portfolio[p][i][2] > 0

\* C4: Player.buy_stock raises, changing nothing, on every call whose share
\* count does not satisfy 0 < shares <= 100 - the player's current holding.
C4_BuyRejectsBadCount ==
    [][\A p \in Players, a \in Assets, n \in ShareChoices :
          (Buy(p, a, n) /\ ~(0 < n /\ n <= 100 - Count(portfolio[p], a)))
              => (ret' = "ValueError" /\ UNCHANGED state)]_vars

\* C5: when the buyer's cash is less than the price of the requested shares,
\* Player.buy_stock returns False and changes neither the buyer's cash and
\* portfolio, nor the asset's owners and unowned_stock, nor the company's
\* funds and owners.
\* (False is the only report of failure, so: a buy that returns False changed
\* nothing, and a buy that went any further was one the buyer could pay.)
C5_UnaffordableBuyChangesNothing ==
    [][/\ (call'.op = "buy" /\ ret' = False) => UNCHANGED state
       /\ (call'.op = "buy" /\ ret' # False) =>
              cash[call'.player] >=
                  (total_stock_value[call'.target] * call'.num_shares) \div 100]_vars

\* a buy has just been refused for lack of cash
C5_Witness == call.op = "buy" /\ ret = False

\* C6: Player.sell_stock returns False and changes nothing when the player has
\* no portfolio entry for the asset or holds fewer than the requested shares,
\* and returns True whenever the sale is carried out.
C6_SellReportsOutcome ==
    [][\A p \in Players, a \in Assets, n \in ShareChoices :
          Sell(p, a, n) =>
              IF ~Has(portfolio[p], a) \/ n > Get(portfolio[p], a)
              THEN ret' = False /\ UNCHANGED state
              ELSE ret' \in Exceptions \/ ret' = True]_vars

\* C7: a buy of n shares that returns True debits the buyer by exactly
\* floor(total_stock_value * n / 100) and leaves the buyer's entry in the
\* asset's owners and in the buyer's portfolio n higher than before, the
\* entry existing afterwards.
C7_BuyDebitsAndCredits ==
    [][(call'.op = "buy" /\ ret' = True) =>
          LET p == call'.player
              a == call'.target
              n == call'.num_shares
          IN  /\ cash'[p] = cash[p] - ((total_stock_value[a] * n) \div 100)
              /\ Has(owners'[a], p)
              /\ Get(owners'[a], p) = Count(owners[a], p) + n
              /\ Has(portfolio'[p], a)
              /\ Get(portfolio'[p], a) = Count(portfolio[p], a) + n]_vars

\* a buy went through whose exact price, 150 * 33 / 100, is not a whole number
C7_Witness ==
    /\ call.op = "buy" /\ ret = True
    /\ call.target = "P2" /\ call.num_shares = 33
    /\ cash[call.player] = cash_before[call.player] - 49

\* C8: a successful purchase of n shares immediately followed by a sale of the
\* same n shares of the same asset leaves the player's cash within the
\* rounding error of the price (one unit) of its value before the purchase.
C8_BuyThenSellRestoresCash ==
    [][(/\ call.op = "buy" /\ ret = True
        /\ call'.op = "sell" /\ ret' \notin Exceptions \cup {False}
        /\ call'.player = call.player /\ call'.target = call.target
        /\ call'.num_shares = call.num_shares)
          => LET d == cash'[call.player] - cash_before[call.player]
             IN  d \in {-1, 0, 1}]_vars

\* a buy that went through on an asset with an empty pool, by a player who
\* held none of it: the whole purchase is drawn from the other owners
DilutingBuy ==
    /\ call'.op = "buy" /\ ret' = True
    /\ unowned_stock[call'.target] = 0
    /\ Count(owners[call'.target], call'.player) = 0

\* C9: in such a purchase of n shares, when every other owner's holding h
\* makes h * n divisible by 100, each of them loses exactly h * n / 100 of the
\* holding they had before and the buyer ends with n (owners {A:60, B:40} and
\* a purchase of 50 give A:30, B:20, C:50).
C9_ExactProRata ==
    [][LET a == call'.target
           n == call'.num_shares
           before == Del(owners[a], call'.player)
       IN  (DilutingBuy /\ \A i \in 1..Len(before) : (before[i][2] * n) % 100 = 0)
              => /\ \A i \in 1..Len(before) :
                       Count(owners'[a], before[i][1]) = before[i][2] - (before[i][2] * n) \div 100
                 /\ Count(owners'[a], call'.player) = n]_vars

\* the purchase of the example has just gone through
C9_Witness ==
    /\ call = CallRec("buy", "C", "P1", 50) /\ ret = True
    /\ owners["P1"] = <<<<"A", 30>>, <<"B", 20>>, <<"C", 50>>>>
    /\ unowned_stock["P1"] = 0

\* C10: in such a purchase the shares taken from the other owners, floor
\* amounts and remainder together, total exactly the number bought, and no
\* share ends up unowned.
C10_RemovedEqualsBought ==
    [][LET a == call'.target
           p == call'.player
       IN  DilutingBuy =>
              /\ SumVals(owners[a]) - (SumVals(owners'[a]) - Count(owners'[a], p))
                     = call'.num_shares
              /\ unowned_stock'[a] = 0]_vars

\* C11: a sale of n shares back to the pool by a holder of at least n shares,
\* with company funds high enough that no bailout starts, reduces the
\* company's funds by exactly floor(total_stock_value * n / 100), reduces the
\* seller's holding in the asset by n, raises unowned_stock by n, and leaves
\* every other owner's holding in the asset unchanged.
C11_SaleBackToPool ==
    [][\A p \in Players, a \in Assets, n \in ShareChoices :
          LET price == (total_stock_value[a] * n) \div 100
          IN  (/\ Sell(p, a, n)
               /\ Count(portfolio[p], a) >= n /\ Count(owners[a], p) >= n
               /\ Has(portfolio[p], a) /\ n > 0
               /\ funds[company[a]] >= price)
                 => /\ funds'[company[a]] = funds[company[a]] - price
                    /\ Count(owners'[a], p) = Count(owners[a], p) - n
                    /\ unowned_stock'[a] = unowned_stock[a] + n
                    /\ \A q \in Players \ {p} :
                           Count(owners'[a], q) = Count(owners[a], q)]_vars

\* what the players asked in a bailout paid between them
RECURSIVE Paid(_, _, _)
Paid(asked, before, after) ==
    IF asked = <<>> THEN 0
    ELSE (before[asked[1]] - after[asked[1]]) + Paid(Tail(asked), before, after)

\* a sale has driven the company's funds below zero and Company.cleanup has
\* run its bailout
BailoutInSale ==
    /\ call'.op = "sell" /\ ret' # False
    /\ cleaned'.outcome # None
    /\ funds[company[call'.target]] <
           (total_stock_value[call'.target] * call'.num_shares) \div 100

C12_Foreclosed ==
    /\ call.op = "sell" /\ cleaned.outcome = "foreclosed"
    /\ \E q \in AsSet(queried) : cash[q] < cash_before[q]

\* C13: immediately after Company.foreclose, the company's funds are 0 and its
\* owner map is empty, and every one of its assets, of every variant, has an
\* empty owners map, unowned_stock = 100, no majority owner, zero houses, and
\* no player's portfolio still contains an entry for that asset.
C13_ForecloseResetsEverything ==
    (call.op = "foreclose" /\ call.target \in Companies /\ Completed) =>
        LET c == call.target
        IN  /\ funds[c] = 0
            /\ company_owners[c] = <<>>
            /\ \A i \in 1..Len(assets[c]) :
                   LET a == assets[c][i]
                   IN  /\ owners[a] = <<>>
                       /\ unowned_stock[a] = TotalShares
                       /\ a \in Railroads => majority_owner[a] = None
                       /\ a \in Properties => num_houses[a] = 0
                       /\ \A p \in Players : ~Has(portfolio[p], a)

\* C16: after every completed buy or sell on a Railroad or Utility, if some
\* player holds more than 50 of the asset's shares then majority_owner is
\* that player; in particular a first purchase of more than 50 shares taken
\* entirely from the unowned pool sets the buyer as majority owner.
C16_MajorityOwnerFollowsHoldings ==
    (call.op \in {"buy", "sell"} /\ Completed /\ ret # False /\ call.target \in Railroads) =>
        \A p \in Players :
            Count(owners[call.target], p) > 50 => majority_owner[call.target] = p

\* C14: foreclosure is idempotent: calling foreclose, on a company or on an
\* asset, twice in a row leaves exactly the same company, asset and player
\* state as calling it once.
C14_ForecloseIdempotent ==
    [][(/\ call.op = "foreclose" /\ Completed
        /\ call'.op = "foreclose" /\ call'.target = call.target)
          => (UNCHANGED state /\ ret' = ret)]_vars

\* a company, or an asset, has been foreclosed twice in a row, and a player
\* who had paid for shares of a property lost them in the foreclosure
C14_Witness ==
    /\ repeated /\ Completed
    /\ \E p \in Players : cash[p] < start_cash[p] /\ portfolio[p] = <<>>

\* C15: on a Railroad or Utility, once majority_owner is set to a player it is
\* never reset to none by any buy, sell or cleanup, even when that player's
\* holding drops to 50 or below; only foreclosure of the asset clears it.
C15_MajorityOwnerSticks ==
    [][\A a \in Railroads :
          (majority_owner[a] # None /\ call'.op # "foreclose")
              => majority_owner'[a] # None]_vars

\* the case C15 is about: some Railroad has a majority owner
C15_MajorityOwnerSet == \E a \in Railroads : majority_owner[a] # None

\* the shares of company c's assets that player q holds once the sale in
\* progress has been taken off the seller's entry
RECURSIVE HeldAtBailout(_, _, _)
HeldAtBailout(q, c, i) ==
    IF i > Len(assets[c]) THEN 0
    ELSE LET x == assets[c][i]
             sold == IF q = call'.player /\ x = call'.target THEN call'.num_shares ELSE 0
         IN  (Count(owners[x], q) - sold) + HeldAtBailout(q, c, i + 1)

\* C17: during a bailout a player is queried if and only if the player
\* currently holds at least one share in one of the company's assets, and
\* each such player is queried exactly once; a player who holds no share of
\* the company is not queried.
C17_QueriedAreTheHolders ==
    [][BailoutInSale =>
          LET c == company[call'.target]
          IN  /\ \A q \in Players :
                     (q \in AsSet(queried')) <=> (HeldAtBailout(q, c, 1) >= 1)
              /\ Len(queried') = Cardinality(AsSet(queried'))]_vars

\* C18: after any sequence of completed buy, sell, bailout and foreclosure
\* operations, every player's portfolio agrees with the assets' ownership
\* tables: for every player P and asset A, P's portfolio count for A equals
\* A's owners count for P, a missing entry counting as 0.
C18_PortfoliosAgreeWithOwners ==
    Completed =>
        \A p \in Players, a \in Assets :
            Count(portfolio[p], a) = Count(owners[a], p)

\* C19: with every player starting with non-negative cash and every asset
\* having a non-negative total stock value, no sequence of buy, sell and
\* bailout operations makes any player's cash negative: a purchase is carried
\* out only when its cost does not exceed the buyer's cash, and a bailout
\* contribution never exceeds the contributor's cash.
C19_CashNeverNegative ==
    \A p \in Players : cash[p] >= 0

\* a bailout has taken a contributor's last unit of cash
C19_Witness ==
    \E p \in AsSet(queried) : cash[p] = 0 /\ cash_before[p] > 0

\* a purchase has taken the buyer's last unit of cash
C19_LastUnitSpent ==
    /\ call.op = "buy" /\ ret = True
    /\ cash[call.player] = 0 /\ cash_before[call.player] > 0

\* C20: an asset cleanup that cascades into Company.cleanup always
\* terminates: for every asset variant the company-initiated pass runs each
\* asset's cleanup with the cascade disabled, so a Company.cleanup that
\* started (no map was found with a zero entry, which ends the call in
\* RuntimeError) went through every asset of the company and finished.
C20_CompanyPassRunsEveryAsset ==
    /\ (call.op = "cleanup" /\ ret # "RuntimeError") => cleaned.company = call.target
    /\ (call.op \in {"buy", "sell"} /\ ret # False) => ret # "TypeError"
====
